---- MODULE Spec2Model ----
(***************************************************************************)
(* Model of apps/tickets/api/request_asset_perm.py                         *)
(* (RequestAssetPermTicketViewSet): the approve / reject handlers, the     *)
(* legality check, the validation of the confirmed payload and the atomic  *)
(* block that records the approval and creates the AssetPermission.        *)
(*                                                                         *)
(* Every request is served by a process p.  A handler is split only where  *)
(* the code touches the store a second time after other requests may have  *)
(* committed: the read phase (get_object, _check_can_set_action and the    *)
(* catalog look-ups, lines 87-106 / 79-81) and the write phase (the        *)
(* atomic block of lines 128-135 / perform_action of line 82).             *)
(***************************************************************************)
EXTENDS Integers, Sequences, FiniteSets, TLC

(* ------------------------------ bounds --------------------------------- *)
NumProcs == 2
NumUsers == 2
NumAssets == 2
MaxAssetsLen == 2
MaxCalls == 3

Procs == 1..NumProcs
Users == 1..NumUsers
AssetIds == 1..NumAssets

\* The handlers act on the one ticket get_object() returns and look up the
\* one account its meta names: the model holds that ticket and that account.
TicketId == 1
AccountId == 1
Tickets == {TicketId}
AccountIds == {AccountId}

(* ------------------------- values of the code -------------------------- *)
\* Python None and the empty string, the two falsy values a meta entry or a
\* look-up can hold; identifiers and timestamps are positive integers.
None == 0
EmptyStr == -1

STATUS_OPEN == "open"
STATUS_CLOSED == "closed"
ACTION_NONE == "none"
ACTION_APPROVE == "approve"
ACTION_REJECT == "reject"

\* the exceptions of ..exceptions imported at lines 18-22
TicketClosed == "TicketClosed"
TicketActionYet == "TicketActionYet"
NotHaveConfirmedAssets == "NotHaveConfirmedAssets"
ConfirmedAssetsChanged == "ConfirmedAssetsChanged"
NotHaveConfirmedSystemUser == "NotHaveConfirmedSystemUser"
ConfirmedSystemUserChanged == "ConfirmedSystemUserChanged"
\* an exception raised by the store inside the atomic block
DatabaseError == "DatabaseError"
\* no exception raised
NoError == "NoError"
Succeed == "Succeed"
Pending == "pending"

ValidationErrors == {TicketClosed, TicketActionYet, NotHaveConfirmedAssets,
                     ConfirmedAssetsChanged, NotHaveConfirmedSystemUser,
                     ConfirmedSystemUserChanged}

\* not x, for the values above
Falsy(x) == x \in {None, EmptyStr}

Range(s) == {s[i] : i \in 1..Len(s)}

SeqsUpTo(S, n) == UNION {[1..k -> S] : k \in 0..n}

\* Asset ids are interchangeable, so a list stands for all its renamings: the
\* lists kept are those that name the assets in the order 1, 2, ... of their
\* first occurrence.
FirstUseOrder(c) ==
    \A i \in 1..Len(c) : \A a \in 1..(c[i] - 1) : \E j \in 1..(i - 1) : c[j] = a

AssetLists == {c \in SeqsUpTo(AssetIds, MaxAssetsLen) : FirstUseOrder(c)}

(* ---------------------------- the directory ---------------------------- *)
\* User.ROLE_ADMIN and the role of the other users
ROLE_ADMIN == "Admin"
ROLE_USER == "User"

\* Organization.DEFAULT_ID, and the organizations that exist
DEFAULT_ID == 0
OrgIds == {1, 2}

\* what a user is in an organization: one of its users, admins or auditors,
\* or nothing
OrgRoles == {"none", "user", "admin", "auditor"}

Directories ==
    [role : [Users -> {ROLE_ADMIN, ROLE_USER}],
     org : [OrgIds -> [Users -> OrgRoles]]]

(* ------------------------------ meta ----------------------------------- *)
\* instance.meta is a dict: keys is the set of keys it has, and the other
\* fields hold the values of those keys (a filler for the keys it lacks).
\* meta.get(key, default)
MetaGet(meta, key, default) == IF key \in meta.keys THEN meta[key] ELSE default

MetaOf(keys, ca, su, ds, de) ==
    [keys |-> keys,
     confirmed_assets |-> IF "confirmed_assets" \in keys THEN ca ELSE << >>,
     confirmed_system_user |-> IF "confirmed_system_user" \in keys THEN su ELSE None,
     date_start |-> IF "date_start" \in keys THEN ds ELSE None,
     date_expired |-> IF "date_expired" \in keys THEN de ELSE None]

\* the confirmed payloads a ticket can carry, without validity bounds
PayloadMetas ==
    {MetaOf(keys, ca, su, None, None) :
        keys \in SUBSET {"confirmed_assets", "confirmed_system_user"},
        ca \in AssetLists,
        su \in AccountIds \cup {EmptyStr}}

\* the two bounds of validity a requester can ask for
DateStart == 1
DateExpired == 2

\* valid payloads with every shape of the two bounds: key absent, key
\* present with null, with the empty string, with a date
DateMetas ==
    {MetaOf({"confirmed_assets", "confirmed_system_user"} \cup dk, <<1>>, AccountId, ds, de) :
        dk \in SUBSET {"date_start", "date_expired"},
        ds \in {None, EmptyStr, DateStart},
        de \in {None, EmptyStr, DateExpired}}

\* the payloads whose confirmed entries are all present and well formed
ConfirmedMetas ==
    {MetaOf({"confirmed_assets", "confirmed_system_user"}, ca, su, None, None) :
        ca \in {c \in AssetLists : Len(c) > 0 /\ Cardinality(Range(c)) = Len(c)},
        su \in AccountIds}

(* ------------------------------ state ---------------------------------- *)
VARIABLES
    tickets,      \* the Ticket rows: id -> [status, action, assignee, user, meta]
    comments,     \* the comments stored for each ticket
    grants,       \* the AssetPermission rows, in creation order
    liveAssets,   \* the ids Asset.objects holds
    liveAccounts, \* the ids SystemUser.objects holds
    pc,           \* where each request is: "idle", "approve" (before the atomic block), "reject" (before perform_action)
    instance,     \* the Ticket object get_object() returned to the request
    reqUser,      \* request.user of the request
    assets,       \* the local assets of approve
    system_user,  \* the local system_user of approve
    last,         \* the latest call that moved: its operation, its ticket and its response
    ncalls,       \* the number of calls received
    directory,    \* the users' global roles and their roles in the organizations
    listed        \* the latest assignees call: its user, its org_id and the users returned

vars == <<tickets, comments, grants, liveAssets, liveAccounts, pc, instance,
          reqUser, assets, system_user, last, ncalls, directory, listed>>

store == <<tickets, comments, grants>>
catalog == <<liveAssets, liveAccounts>>
identity == <<directory, listed>>

NoInstance == [id |-> 0, status |-> STATUS_OPEN, action |-> ACTION_NONE,
               assignee |-> None, user |-> None, meta |-> MetaOf({}, << >>, None, None, None)]

\* the store the three tables make
DB == [tickets |-> tickets, comments |-> comments, grants |-> grants]

\* a new ticket: open, no action, the requester and the meta of the request
NewTicket(u, m) == [status |-> STATUS_OPEN, action |-> ACTION_NONE,
                    assignee |-> None, user |-> u, meta |-> m]

\* the ticket was requested by the first user with one of Metas
InitWith(Metas) ==
    /\ tickets \in [Tickets -> {NewTicket(1, m) : m \in Metas}]
    /\ comments = [t \in Tickets |-> << >>]
    /\ grants = << >>
    /\ liveAssets = AssetIds
    /\ liveAccounts = AccountIds
    /\ pc = [p \in Procs |-> "idle"]
    /\ instance = [p \in Procs |-> NoInstance]
    /\ reqUser = [p \in Procs |-> None]
    /\ assets = [p \in Procs |-> {}]
    /\ system_user = [p \in Procs |-> None]
    /\ last = [op |-> ACTION_NONE, ticket |-> TicketId, resp |-> Pending]
    /\ ncalls = 0

\* no assignees call was made yet
NoListing == [user |-> None, org_id |-> DEFAULT_ID, result |-> {}]

\* the first user is the one administrator and no organization has anyone
PlainDirectory ==
    [role |-> [u \in Users |-> IF u = 1 THEN ROLE_ADMIN ELSE ROLE_USER],
     org |-> [o \in OrgIds |-> [u \in Users |-> "none"]]]

Init ==
    /\ InitWith(PayloadMetas)
    /\ directory = PlainDirectory
    /\ listed = NoListing

(* ---------------------------- the handlers ----------------------------- *)
\* self.get_object(): the row of ticket t as an object of the request
GetObject(t) == [id |-> t, status |-> tickets[t].status, action |-> tickets[t].action,
                 assignee |-> tickets[t].assignee, user |-> tickets[t].user,
                 meta |-> tickets[t].meta]

\* _check_can_set_action refusing every ticket whose action was set
CheckCanSetActionOnce(inst, action) ==
    IF inst.status = STATUS_CLOSED THEN TicketClosed
    ELSE IF inst.action # ACTION_NONE THEN TicketActionYet
    ELSE NoError

\* the check without its test of the status
CheckCanSetActionNoClosed(inst, action) ==
    IF inst.action = action THEN TicketActionYet
    ELSE NoError

\* the check with its two tests in the other order
CheckCanSetActionSwapped(inst, action) ==
    IF inst.action = action THEN TicketActionYet
    ELSE IF inst.status = STATUS_CLOSED THEN TicketClosed
    ELSE NoError

\* _check_can_set_action: the exception it raises, or NoError
CheckCanSetAction(inst, action) ==
    IF inst.status = STATUS_CLOSED THEN TicketClosed
    ELSE IF inst.action = action THEN TicketActionYet
    ELSE NoError

\* Asset.objects.filter(id__in=confirmed_assets)
FilterAssets(confirmed_assets) == {a \in liveAssets : a \in Range(confirmed_assets)}

\* get_object_or_none(SystemUser, id=confirmed_system_user)
GetObjectOrNone(id) == IF id \in liveAccounts THEN id ELSE None

\* _get_extra_comment: the confirmed entries of meta the text embeds
GetExtraComment(inst) ==
    [confirmed_assets |-> MetaGet(inst.meta, "confirmed_assets", << >>),
     confirmed_system_user |-> MetaGet(inst.meta, "confirmed_system_user", EmptyStr)]

\* approve validating the confirmed payload before the legality check
ApproveErrorPayloadFirst(inst) ==
    LET confirmed_assets == MetaGet(inst.meta, "confirmed_assets", << >>)
        found == FilterAssets(confirmed_assets)
        confirmed_system_user == MetaGet(inst.meta, "confirmed_system_user", None)
    IN  IF found = {} THEN NotHaveConfirmedAssets
        ELSE IF Cardinality(found) # Len(confirmed_assets) THEN ConfirmedAssetsChanged
        ELSE IF Falsy(confirmed_system_user) THEN NotHaveConfirmedSystemUser
        ELSE IF GetObjectOrNone(confirmed_system_user) = None THEN ConfirmedSystemUserChanged
        ELSE CheckCanSetAction(inst, ACTION_APPROVE)

\* approve comparing the counts before testing that some asset was found
ApproveErrorCountFirst(inst) ==
    LET confirmed_assets == MetaGet(inst.meta, "confirmed_assets", << >>)
        found == FilterAssets(confirmed_assets)
        confirmed_system_user == MetaGet(inst.meta, "confirmed_system_user", None)
    IN  IF CheckCanSetAction(inst, ACTION_APPROVE) # NoError
            THEN CheckCanSetAction(inst, ACTION_APPROVE)
        ELSE IF Cardinality(found) # Len(confirmed_assets) THEN ConfirmedAssetsChanged
        ELSE IF found = {} THEN NotHaveConfirmedAssets
        ELSE IF Falsy(confirmed_system_user) THEN NotHaveConfirmedSystemUser
        ELSE IF GetObjectOrNone(confirmed_system_user) = None THEN ConfirmedSystemUserChanged
        ELSE NoError

\* approve without the comparison of the counts
ApproveErrorNoCount(inst) ==
    LET confirmed_assets == MetaGet(inst.meta, "confirmed_assets", << >>)
        found == FilterAssets(confirmed_assets)
        confirmed_system_user == MetaGet(inst.meta, "confirmed_system_user", None)
    IN  IF CheckCanSetAction(inst, ACTION_APPROVE) # NoError
            THEN CheckCanSetAction(inst, ACTION_APPROVE)
        ELSE IF found = {} THEN NotHaveConfirmedAssets
        ELSE IF Falsy(confirmed_system_user) THEN NotHaveConfirmedSystemUser
        ELSE IF GetObjectOrNone(confirmed_system_user) = None THEN ConfirmedSystemUserChanged
        ELSE NoError

\* approve looking the account up before testing that one is confirmed
ApproveErrorLookupFirst(inst) ==
    LET confirmed_assets == MetaGet(inst.meta, "confirmed_assets", << >>)
        found == FilterAssets(confirmed_assets)
        confirmed_system_user == MetaGet(inst.meta, "confirmed_system_user", None)
    IN  IF CheckCanSetAction(inst, ACTION_APPROVE) # NoError
            THEN CheckCanSetAction(inst, ACTION_APPROVE)
        ELSE IF found = {} THEN NotHaveConfirmedAssets
        ELSE IF Cardinality(found) # Len(confirmed_assets) THEN ConfirmedAssetsChanged
        ELSE IF GetObjectOrNone(confirmed_system_user) = None THEN ConfirmedSystemUserChanged
        ELSE IF Falsy(confirmed_system_user) THEN NotHaveConfirmedSystemUser
        ELSE NoError

\* approve validating the account before the assets
ApproveErrorAccountFirst(inst) ==
    LET confirmed_assets == MetaGet(inst.meta, "confirmed_assets", << >>)
        found == FilterAssets(confirmed_assets)
        confirmed_system_user == MetaGet(inst.meta, "confirmed_system_user", None)
    IN  IF CheckCanSetAction(inst, ACTION_APPROVE) # NoError
            THEN CheckCanSetAction(inst, ACTION_APPROVE)
        ELSE IF Falsy(confirmed_system_user) THEN NotHaveConfirmedSystemUser
        ELSE IF GetObjectOrNone(confirmed_system_user) = None THEN ConfirmedSystemUserChanged
        ELSE IF found = {} THEN NotHaveConfirmedAssets
        ELSE IF Cardinality(found) # Len(confirmed_assets) THEN ConfirmedAssetsChanged
        ELSE NoError

\* approve comparing the assets found with the distinct ids confirmed
ApproveErrorDistinctCount(inst) ==
    LET confirmed_assets == MetaGet(inst.meta, "confirmed_assets", << >>)
        found == FilterAssets(confirmed_assets)
        confirmed_system_user == MetaGet(inst.meta, "confirmed_system_user", None)
    IN  IF CheckCanSetAction(inst, ACTION_APPROVE) # NoError
            THEN CheckCanSetAction(inst, ACTION_APPROVE)
        ELSE IF found = {} THEN NotHaveConfirmedAssets
        ELSE IF Cardinality(found) # Cardinality(Range(confirmed_assets)) THEN ConfirmedAssetsChanged
        ELSE IF Falsy(confirmed_system_user) THEN NotHaveConfirmedSystemUser
        ELSE IF GetObjectOrNone(confirmed_system_user) = None THEN ConfirmedSystemUserChanged
        ELSE NoError

\* the checks of approve after get_object, lines 88-106: the exception raised, or NoError
ApproveError(inst) ==
    LET confirmed_assets == MetaGet(inst.meta, "confirmed_assets", << >>)
        found == FilterAssets(confirmed_assets)
        confirmed_system_user == MetaGet(inst.meta, "confirmed_system_user", None)
    IN  IF CheckCanSetAction(inst, ACTION_APPROVE) # NoError
            THEN CheckCanSetAction(inst, ACTION_APPROVE)
        ELSE IF found = {} THEN NotHaveConfirmedAssets
        ELSE IF Cardinality(found) # Len(confirmed_assets) THEN ConfirmedAssetsChanged
        ELSE IF Falsy(confirmed_system_user) THEN NotHaveConfirmedSystemUser
        ELSE IF GetObjectOrNone(confirmed_system_user) = None THEN ConfirmedSystemUserChanged
        ELSE NoError

\* Ticket.perform_action(action, user, comment) on the object of the
\* request: the action and the actor are set on the object
PerformedInstance(inst, action, user) ==
    [inst EXCEPT !.action = action, !.assignee = user]

\* Ticket.perform_action(action, user, comment) on the store: the object is
\* saved as the row of the ticket and the comment is stored with it
PerformAction(db, inst, action, user, comment) ==
    LET obj == PerformedInstance(inst, action, user)
    IN  [db EXCEPT
            !.tickets[inst.id] = [status |-> obj.status, action |-> obj.action,
                                  assignee |-> obj.assignee, user |-> obj.user,
                                  meta |-> obj.meta],
            !.comments[inst.id] = Append(@, [action |-> action, user |-> user,
                                             body |-> comment])]

\* the bounds passed to create if every key of meta were passed on
DateKwargsKeyPresent(meta) ==
    {k \in {"date_start", "date_expired"} : k \in meta.keys}

\* ap_kwargs, lines 115-126: name embeds instance.id, created_by is the
\* request's user, and each bound is passed only if meta holds a truthy one
DateKwargs(meta) ==
    {k \in {"date_start", "date_expired"} : ~Falsy(MetaGet(meta, k, None))}

ApKwargs(inst, user) ==
    [name |-> inst.id,
     created_by |-> user,
     keys |-> DateKwargs(inst.meta),
     date_start |-> IF "date_start" \in DateKwargs(inst.meta)
                    THEN MetaGet(inst.meta, "date_start", None) ELSE None,
     date_expired |-> IF "date_expired" \in DateKwargs(inst.meta)
                      THEN MetaGet(inst.meta, "date_expired", None) ELSE None]

\* AssetPermission.objects.create(**ap_kwargs): a row with no association
\* yet; fields names the bounds that were passed (the others take the
\* default of the store)
CreateAssetPermission(kwargs) ==
    [ticket |-> kwargs.name, created_by |-> kwargs.created_by,
     fields |-> kwargs.keys,
     date_start |-> kwargs.date_start, date_expired |-> kwargs.date_expired,
     system_users |-> {}, assets |-> {}, users |-> {}]

\* the number of writes of the atomic block, lines 129-135
NumWrites == 5

\* the atomic block recording a rejection where it records the approval
TxWriteWrongAction(db, p, k) ==
    LET ap == Len(db.grants)
    IN  CASE k = 1 -> PerformAction(db, instance[p], ACTION_REJECT, reqUser[p],
                                    GetExtraComment(instance[p]))
          [] k = 2 -> [db EXCEPT !.grants =
                          Append(@, CreateAssetPermission(ApKwargs(instance[p], reqUser[p])))]
          [] k = 3 -> [db EXCEPT !.grants[ap].system_users = @ \cup {system_user[p]}]
          [] k = 4 -> [db EXCEPT !.grants[ap].assets = @ \cup assets[p]]
          [] k = 5 -> [db EXCEPT !.grants[ap].users = @ \cup {reqUser[p]}]

\* the k-th write of the atomic block, made for request p
TxWrite(db, p, k) ==
    LET ap == Len(db.grants)
    IN  CASE k = 1 -> PerformAction(db, instance[p], ACTION_APPROVE, reqUser[p],
                                    GetExtraComment(instance[p]))
          [] k = 2 -> [db EXCEPT !.grants =
                          Append(@, CreateAssetPermission(ApKwargs(instance[p], reqUser[p])))]
          [] k = 3 -> [db EXCEPT !.grants[ap].system_users = @ \cup {system_user[p]}]
          [] k = 4 -> [db EXCEPT !.grants[ap].assets = @ \cup assets[p]]
          [] k = 5 -> [db EXCEPT !.grants[ap].users = @ \cup {reqUser[p]}]

\* the store after the first n writes of the atomic block
RECURSIVE TxWrites(_, _, _)
TxWrites(db, p, n) == IF n = 0 THEN db ELSE TxWrite(TxWrites(db, p, n - 1), p, n)

\* a block that keeps the writes made up to the exception
AtomicNoRollback(before, after, failed) == after

\* with atomic(): the writes made up to an exception are rolled back, and
\* the writes of a block that ends normally are committed together
Atomic(before, after, failed) == IF failed THEN before ELSE after

SetStore(db) ==
    /\ tickets' = db.tickets
    /\ comments' = db.comments
    /\ grants' = db.grants

Idle(p) ==
    /\ pc' = [pc EXCEPT ![p] = "idle"]
    /\ instance' = [instance EXCEPT ![p] = NoInstance]
    /\ reqUser' = [reqUser EXCEPT ![p] = None]
    /\ assets' = [assets EXCEPT ![p] = {}]
    /\ system_user' = [system_user EXCEPT ![p] = None]

\* the response (or Pending) of the call process p serves
Respond(p, op, t, r) ==
    /\ last' = [op |-> op, ticket |-> t, resp |-> r]
    /\ UNCHANGED identity

Receive(p) ==
    /\ pc[p] = "idle"
    /\ ncalls < MaxCalls
    /\ ncalls' = ncalls + 1

\* approve recording the approval before it validates the payload
ApproveBeginWritesFirst(p, t, u) ==
    /\ Receive(p)
    /\ LET inst == GetObject(t)
           err == ApproveError(inst)
       IN  IF err # NoError
           THEN /\ Respond(p, ACTION_APPROVE, t, err)
                /\ Idle(p)
                /\ IF CheckCanSetAction(inst, ACTION_APPROVE) = NoError
                   THEN SetStore(PerformAction(DB, inst, ACTION_APPROVE, u,
                                               GetExtraComment(inst)))
                   ELSE UNCHANGED store
           ELSE /\ Respond(p, ACTION_APPROVE, t, Pending)
                /\ pc' = [pc EXCEPT ![p] = "approve"]
                /\ instance' = [instance EXCEPT ![p] = inst]
                /\ reqUser' = [reqUser EXCEPT ![p] = u]
                /\ assets' = [assets EXCEPT ![p] =
                       FilterAssets(MetaGet(inst.meta, "confirmed_assets", << >>))]
                /\ system_user' = [system_user EXCEPT ![p] =
                       GetObjectOrNone(MetaGet(inst.meta, "confirmed_system_user", None))]
                /\ UNCHANGED store
    /\ UNCHANGED catalog

\* approve, lines 87-106: the ticket is read, checked and validated; the
\* request either fails here or goes on to _create_asset_permission
ApproveBegin(p, t, u) ==
    /\ Receive(p)
    /\ LET inst == GetObject(t)
           err == ApproveError(inst)
       IN  IF err # NoError
           THEN /\ Respond(p, ACTION_APPROVE, t, err)
                /\ Idle(p)
           ELSE /\ Respond(p, ACTION_APPROVE, t, Pending)
                /\ pc' = [pc EXCEPT ![p] = "approve"]
                /\ instance' = [instance EXCEPT ![p] = inst]
                /\ reqUser' = [reqUser EXCEPT ![p] = u]
                /\ assets' = [assets EXCEPT ![p] =
                       FilterAssets(MetaGet(inst.meta, "confirmed_assets", << >>))]
                /\ system_user' = [system_user EXCEPT ![p] =
                       GetObjectOrNone(MetaGet(inst.meta, "confirmed_system_user", None))]
    /\ UNCHANGED <<store, catalog>>

\* _create_asset_permission with perform_action left out of the block
ApproveWriteNoAction(p, failAfter) ==
    /\ pc[p] = "approve"
    /\ LET n == IF failAfter = 0 THEN NumWrites ELSE failAfter
       IN  SetStore(Atomic(DB, [TxWrites(DB, p, n) EXCEPT !.tickets = tickets,
                                                          !.comments = comments],
                           failAfter # 0))
    /\ Respond(p, ACTION_APPROVE, instance[p].id,
               IF failAfter = 0 THEN Succeed ELSE DatabaseError)
    /\ Idle(p)
    /\ UNCHANGED <<catalog, ncalls>>

\* _create_asset_permission, lines 128-135: the atomic block, in which the
\* store may raise after any of the writes (failAfter = 0: none raises)
ApproveWrite(p, failAfter) ==
    /\ pc[p] = "approve"
    /\ LET n == IF failAfter = 0 THEN NumWrites ELSE failAfter
       IN  SetStore(Atomic(DB, TxWrites(DB, p, n), failAfter # 0))
    /\ Respond(p, ACTION_APPROVE, instance[p].id,
               IF failAfter = 0 THEN Succeed ELSE DatabaseError)
    /\ Idle(p)
    /\ UNCHANGED <<catalog, ncalls>>

\* reject validating the confirmed payload as approve does
RejectBeginValidates(p, t, u) ==
    /\ Receive(p)
    /\ LET inst == GetObject(t)
           err == IF CheckCanSetAction(inst, ACTION_REJECT) # NoError
                  THEN CheckCanSetAction(inst, ACTION_REJECT)
                  ELSE ApproveError([inst EXCEPT !.action = ACTION_NONE])
       IN  IF err # NoError
           THEN /\ Respond(p, ACTION_REJECT, t, err)
                /\ Idle(p)
           ELSE /\ Respond(p, ACTION_REJECT, t, Pending)
                /\ pc' = [pc EXCEPT ![p] = "reject"]
                /\ instance' = [instance EXCEPT ![p] = inst]
                /\ reqUser' = [reqUser EXCEPT ![p] = u]
                /\ UNCHANGED <<assets, system_user>>
    /\ UNCHANGED <<store, catalog>>

\* reject, lines 79-81: the ticket is read and checked
RejectBegin(p, t, u) ==
    /\ Receive(p)
    /\ LET inst == GetObject(t)
           err == CheckCanSetAction(inst, ACTION_REJECT)
       IN  IF err # NoError
           THEN /\ Respond(p, ACTION_REJECT, t, err)
                /\ Idle(p)
           ELSE /\ Respond(p, ACTION_REJECT, t, Pending)
                /\ pc' = [pc EXCEPT ![p] = "reject"]
                /\ instance' = [instance EXCEPT ![p] = inst]
                /\ reqUser' = [reqUser EXCEPT ![p] = u]
                /\ UNCHANGED <<assets, system_user>>
    /\ UNCHANGED <<store, catalog>>

\* reject revoking the grants made so far
RejectWriteRevokes(p) ==
    /\ pc[p] = "reject"
    /\ SetStore([PerformAction(DB, instance[p], ACTION_REJECT, reqUser[p],
                               GetExtraComment(instance[p]))
                 EXCEPT !.grants = << >>])
    /\ Respond(p, ACTION_REJECT, instance[p].id, Succeed)
    /\ Idle(p)
    /\ UNCHANGED <<catalog, ncalls>>

\* reject passing the action of approve to perform_action
RejectWriteWrongAction(p) ==
    /\ pc[p] = "reject"
    /\ SetStore(PerformAction(DB, instance[p], ACTION_APPROVE, reqUser[p],
                              GetExtraComment(instance[p])))
    /\ Respond(p, ACTION_REJECT, instance[p].id, Succeed)
    /\ Idle(p)
    /\ UNCHANGED <<catalog, ncalls>>

\* reject, lines 82-83: perform_action records the rejection
RejectWrite(p) ==
    /\ pc[p] = "reject"
    /\ SetStore(PerformAction(DB, instance[p], ACTION_REJECT, reqUser[p],
                              GetExtraComment(instance[p])))
    /\ Respond(p, ACTION_REJECT, instance[p].id, Succeed)
    /\ Idle(p)
    /\ UNCHANGED <<catalog, ncalls>>

(* ----------------------------- assignees ------------------------------- *)
\* the many-to-many relations of Organization o
OrgUsers(dir, o) == {u \in Users : dir.org[o][u] = "user"}
OrgAdmins(dir, o) == {u \in Users : dir.org[o][u] = "admin"}
OrgAuditors(dir, o) == {u \in Users : dir.org[o][u] = "auditor"}

\* related_admin_orgs of user u: the organizations u is an admin of
RelatedAdminOrgs(dir, u) == {o \in OrgIds : u \in OrgAdmins(dir, o)}

\* the Q of lines 57-59 that leaves the id of the organization out
QAnyOrg(dir, user, org_id, u) ==
    \/ dir.role[u] = ROLE_ADMIN
    \/ /\ org_id # DEFAULT_ID
       /\ \E o \in RelatedAdminOrgs(dir, u) :
              \/ user \in OrgUsers(dir, o)
              \/ user \in OrgAdmins(dir, o)
              \/ user \in OrgAuditors(dir, o)

\* the Q of lines 55-59: u matches it for the request of user on org_id
Q(dir, user, org_id, u) ==
    \/ dir.role[u] = ROLE_ADMIN
    \/ /\ org_id # DEFAULT_ID
       /\ \E o \in RelatedAdminOrgs(dir, u) :
              /\ o = org_id
              /\ \/ user \in OrgUsers(dir, o)
                 \/ user \in OrgAdmins(dir, o)
                 \/ user \in OrgAuditors(dir, o)

\* assignees, lines 51-62: User.objects.filter(q) for the user of the
\* request and the org_id of its query
Assignees(user, org_id) ==
    /\ listed' = [user |-> user, org_id |-> org_id,
                  result |-> {u \in Users : Q(directory, user, org_id, u)}]
    /\ UNCHANGED <<store, catalog, pc, instance, reqUser, assets, system_user,
                   last, ncalls, directory>>

(* --------------------------- the environment --------------------------- *)
\* a ticket is closed outside this view set
CloseTicket(t) ==
    /\ tickets[t].status = STATUS_OPEN
    /\ tickets' = [tickets EXCEPT ![t].status = STATUS_CLOSED]
    /\ UNCHANGED <<comments, grants, catalog, pc, instance, reqUser, assets,
                   system_user, last, ncalls, identity>>

\* an asset is deleted from the catalog
DeleteAsset(a) ==
    /\ a \in liveAssets
    /\ liveAssets' = liveAssets \ {a}
    /\ UNCHANGED <<store, liveAccounts, pc, instance, reqUser, assets,
                   system_user, last, ncalls, identity>>

\* a system user is deleted from the catalog
DeleteAccount(s) ==
    /\ s \in liveAccounts
    /\ liveAccounts' = liveAccounts \ {s}
    /\ UNCHANGED <<store, liveAssets, pc, instance, reqUser, assets,
                   system_user, last, ncalls, identity>>

\* requests are served one at a time, each to completion, by one process
Worker == CHOOSE p \in Procs : TRUE

Next ==
    \/ \E t \in Tickets, u \in Users : ApproveBegin(Worker, t, u)
    \/ \E f \in 0..NumWrites : ApproveWrite(Worker, f)
    \/ \E t \in Tickets, u \in Users : RejectBegin(Worker, t, u)
    \/ RejectWrite(Worker)
    \/ \E t \in Tickets : CloseTicket(t)
    \/ \E a \in AssetIds : DeleteAsset(a)
    \/ \E s \in AccountIds : DeleteAccount(s)

Spec == Init /\ [][Next]_vars

\* requests are served concurrently, one per process
NextConc ==
    \/ \E p \in Procs, t \in Tickets, u \in Users : ApproveBegin(p, t, u)
    \/ \E p \in Procs, f \in 0..NumWrites : ApproveWrite(p, f)
    \/ \E p \in Procs, t \in Tickets, u \in Users : RejectBegin(p, t, u)
    \/ \E p \in Procs : RejectWrite(p)
    \/ \E t \in Tickets : CloseTicket(t)
    \/ \E a \in AssetIds : DeleteAsset(a)
    \/ \E s \in AccountIds : DeleteAccount(s)

InitConc ==
    /\ InitWith(ConfirmedMetas)
    /\ directory = PlainDirectory
    /\ listed = NoListing

SpecConc == InitConc /\ [][NextConc]_vars

\* the assignees calls, over every directory
\* tickets with a valid payload and every shape of the bounds of validity
InitDates ==
    /\ InitWith(DateMetas)
    /\ directory = PlainDirectory
    /\ listed = NoListing

SpecDates == InitDates /\ [][Next]_vars

InitAssignees ==
    /\ InitWith({MetaOf({}, << >>, None, None, None)})
    /\ directory \in Directories
    /\ listed = NoListing

NextAssignees ==
    \E user \in Users, org_id \in OrgIds \cup {DEFAULT_ID} : Assignees(user, org_id)

SpecAssignees == InitAssignees /\ [][NextAssignees]_vars
(* ----------------------------- properties ------------------------------ *)
\* the grants of gs created for ticket t
GrantsOf(gs, t) == {i \in 1..Len(gs) : gs[i].ticket = t}

\* the approvals recorded in the comments cs
ApprovalsIn(cs) == {i \in 1..Len(cs) : cs[i].action = ACTION_APPROVE}

\* this step receives a call: last' names its operation and its ticket
CallReceived == ncalls' = ncalls + 1

\* this step ends the write phase of the call process p serves
WriteDone(p, op) == pc[p] = op /\ pc'[p] = "idle"

\* C1: the atomic block of approve is all-or-nothing: the step that ends it
\* either leaves the ticket APPROVED together with one new grant carrying
\* its account, its assets and a user, or leaves tickets, comments and
\* grants as they were, wherever the store raised
C1_AllOrNothing ==
    [][\A p \in Procs : WriteDone(p, "approve") =>
        \/ /\ tickets'[instance[p].id].action = ACTION_APPROVE
           /\ Len(grants') = Len(grants) + 1
           /\ SubSeq(grants', 1, Len(grants)) = grants
           /\ grants'[Len(grants')].ticket = instance[p].id
           /\ grants'[Len(grants')].system_users = {system_user[p]}
           /\ grants'[Len(grants')].assets = assets[p]
           /\ grants'[Len(grants')].users # {}
        \/ /\ tickets' = tickets
           /\ comments' = comments
           /\ grants' = grants]_vars

C1_Witness ==
    /\ last.op = ACTION_APPROVE
    /\ last.resp = DatabaseError
    /\ tickets[last.ticket].action = ACTION_NONE
    /\ comments[last.ticket] = << >>
    /\ grants = << >>

\* C2 as stated: right after a successful approve the ticket is APPROVED and
\* exactly one grant exists for it
C2_ExactlyOneGrant ==
    (last.op = ACTION_APPROVE /\ last.resp = Succeed) =>
        /\ tickets[last.ticket].action = ACTION_APPROVE
        /\ Cardinality(GrantsOf(grants, last.ticket)) = 1

\* C2 as amended: a successful approve leaves the ticket APPROVED and adds
\* exactly one grant for it, so that the ticket has one grant for each of
\* its recorded approvals
C2_OneGrantPerApproval ==
    [][\A p \in Procs : (WriteDone(p, "approve") /\ last'.resp = Succeed) =>
        /\ tickets'[instance[p].id].action = ACTION_APPROVE
        /\ Cardinality(GrantsOf(grants', instance[p].id))
             = Cardinality(GrantsOf(grants, instance[p].id)) + 1
        /\ Cardinality(GrantsOf(grants', instance[p].id))
             = Cardinality(ApprovalsIn(comments'[instance[p].id]))]_vars

C2_Witness ==
    /\ last.op = ACTION_APPROVE
    /\ last.resp = Succeed
    /\ tickets[last.ticket].action = ACTION_APPROVE
    /\ Cardinality(GrantsOf(grants, last.ticket)) = 2

\* C3 as stated: once the action of a ticket has left NONE it never changes
C3_ActionNeverChanges ==
    [][\A t \in Tickets : tickets[t].action # ACTION_NONE =>
                              tickets'[t].action = tickets[t].action]_vars

\* C3 as amended: the action of a ticket changes only by a successful call
\* on that ticket, to the action of that call, and so never back to NONE
C3_ActionSetByCalls ==
    [][\A t \in Tickets : tickets'[t].action # tickets[t].action =>
        /\ last'.resp = Succeed
        /\ last'.ticket = t
        /\ tickets'[t].action = last'.op
        /\ tickets'[t].action # ACTION_NONE]_vars

C3_Witness ==
    /\ last.op = ACTION_REJECT
    /\ last.resp = Succeed
    /\ tickets[last.ticket].action = ACTION_REJECT
    /\ ApprovalsIn(comments[last.ticket]) # {}

\* C4: of two interleaved approve calls that both read the same OPEN ticket
\* with action NONE, at most one succeeds and at most one grant is created:
\* once one of them has committed its approval, the other does not succeed
C4_AtMostOneApproveWins ==
    [][\A q \in Procs :
        ( /\ pc[q] = "approve"
          /\ instance[q].status = STATUS_OPEN
          /\ instance[q].action = ACTION_NONE
          /\ tickets[instance[q].id].action = ACTION_APPROVE
          /\ Len(comments[instance[q].id]) = 1
          /\ Cardinality(GrantsOf(grants, instance[q].id)) = 1 )
        => /\ ~(pc'[q] = "idle" /\ last'.resp = Succeed)
           /\ Cardinality(GrantsOf(grants', instance[q].id)) <= 1]_vars

\* C5: every grant is associated with exactly the confirmed assets and the
\* confirmed account of its ticket, and with the requester of the ticket
C5_GrantLinksRequester ==
    \A i \in 1..Len(grants) :
        /\ grants[i].assets = Range(tickets[grants[i].ticket].meta.confirmed_assets)
        /\ grants[i].system_users = {tickets[grants[i].ticket].meta.confirmed_system_user}
        /\ grants[i].users = {tickets[grants[i].ticket].user}

\* C6: a reject that succeeds leaves the ticket REJECTED and the grants as
\* they were
C6_RejectNoGrant ==
    [][\A p \in Procs : WriteDone(p, "reject") =>
        /\ last'.resp = Succeed
        /\ tickets'[instance[p].id].action = ACTION_REJECT
        /\ grants' = grants]_vars

C6_Witness ==
    /\ last.op = ACTION_REJECT
    /\ last.resp = Succeed
    /\ tickets[last.ticket].action = ACTION_REJECT
    /\ grants # << >>

\* C7: approve and reject on a CLOSED ticket fail with TicketClosed,
\* whatever the action of the ticket, its meta and the catalog
C7_ClosedFirst ==
    [][(CallReceived /\ tickets[last'.ticket].status = STATUS_CLOSED) =>
        last'.resp = TicketClosed]_vars

C7_Witness ==
    /\ last.resp = TicketClosed
    /\ tickets[last.ticket].status = STATUS_CLOSED
    /\ tickets[last.ticket].action = last.op

\* C8: on an OPEN ticket, a call for the action the ticket records fails
\* with TicketActionYet, whatever the confirmed payload
C8_SameActionRefused ==
    [][(/\ CallReceived
        /\ tickets[last'.ticket].status = STATUS_OPEN
        /\ tickets[last'.ticket].action = last'.op) =>
        last'.resp = TicketActionYet]_vars

C8_Witness ==
    /\ last.resp = TicketActionYet
    /\ last.op = ACTION_APPROVE
    /\ tickets[last.ticket].status = STATUS_OPEN
    /\ tickets[last.ticket].action = ACTION_APPROVE
    /\ Range(tickets[last.ticket].meta.confirmed_assets) \cap liveAssets = {}

\* C9: a call that fails with one of the six errors of the handlers leaves
\* tickets, comments and grants as they were
C9_FailureWritesNothing ==
    [][(CallReceived /\ last'.resp \in ValidationErrors) =>
        /\ tickets' = tickets
        /\ comments' = comments
        /\ grants' = grants]_vars

C9_Witness ==
    /\ last.op = ACTION_APPROVE
    /\ last.resp = ConfirmedSystemUserChanged
    /\ tickets[last.ticket].action = ACTION_NONE
    /\ comments[last.ticket] = << >>
    /\ grants = << >>

\* C10: an approve that passes the legality check fails with
\* NotHaveConfirmedAssets when confirmed_assets is missing, empty, or lists
\* no live asset
C10_NoConfirmedAssets ==
    [][(/\ CallReceived
        /\ last'.op = ACTION_APPROVE
        /\ tickets[last'.ticket].status = STATUS_OPEN
        /\ tickets[last'.ticket].action # ACTION_APPROVE
        /\ \/ "confirmed_assets" \notin tickets[last'.ticket].meta.keys
           \/ \A i \in 1..Len(tickets[last'.ticket].meta.confirmed_assets) :
                 tickets[last'.ticket].meta.confirmed_assets[i] \notin liveAssets) =>
        last'.resp = NotHaveConfirmedAssets]_vars

C10_Witness ==
    /\ last.op = ACTION_APPROVE
    /\ last.resp = NotHaveConfirmedAssets
    /\ "confirmed_assets" \in tickets[last.ticket].meta.keys
    /\ Len(tickets[last.ticket].meta.confirmed_assets) > 0

\* the users with the global administrator role
GlobalAdmins == {u \in Users : directory.role[u] = ROLE_ADMIN}

\* the users with a role in organization o
OrgPeople(o) == {u \in Users : directory.org[o][u] # "none"}

\* C14 as stated: assignees returns the global administrators for the
\* default scope, and for an organization the global administrators together
\* with the users, admins and auditors of that organization
C14_AssigneesAreOrgPeople ==
    listed.user # None =>
        listed.result = IF listed.org_id = DEFAULT_ID THEN GlobalAdmins
                        ELSE GlobalAdmins \cup OrgPeople(listed.org_id)

\* C14 as amended: assignees returns the global administrators for the
\* default scope; for an organization it returns the global administrators
\* together with the admins of that organization, the latter only when the
\* user of the request is a user, admin or auditor of it
C14_AssigneesAreOrgAdmins ==
    listed.user # None =>
        listed.result =
            IF listed.org_id # DEFAULT_ID /\ listed.user \in OrgPeople(listed.org_id)
            THEN GlobalAdmins \cup {u \in Users : directory.org[listed.org_id][u] = "admin"}
            ELSE GlobalAdmins

C14_Witness ==
    /\ listed.user # None
    /\ listed.org_id # DEFAULT_ID
    /\ directory.org[listed.org_id][listed.user] = "user"
    /\ listed.result # GlobalAdmins
    /\ listed.user \notin listed.result

\* ticket t is OPEN and its action is not a
Legal(t, a) == tickets[t].status = STATUS_OPEN /\ tickets[t].action # a

\* the confirmed_assets of ticket t (none when meta lacks the key) and the
\* live assets among them
ConfirmedAssetsOf(t) ==
    IF "confirmed_assets" \in tickets[t].meta.keys
    THEN tickets[t].meta.confirmed_assets ELSE << >>

LiveConfirmed(t) ==
    {a \in liveAssets : \E i \in 1..Len(ConfirmedAssetsOf(t)) : ConfirmedAssetsOf(t)[i] = a}

\* the asset checks of approve pass for ticket t
AssetsPass(t) ==
    /\ LiveConfirmed(t) # {}
    /\ Cardinality(LiveConfirmed(t)) = Len(ConfirmedAssetsOf(t))

\* ticket t confirms no account: meta lacks the key or holds an empty value
NoAccount(t) ==
    \/ "confirmed_system_user" \notin tickets[t].meta.keys
    \/ tickets[t].meta.confirmed_system_user \in {None, EmptyStr}

\* C11: an approve that passes the legality check fails with
\* ConfirmedAssetsChanged exactly when some confirmed id is live and the
\* number of live assets found differs from the number of entries confirmed
C11_AssetsChanged ==
    [][(/\ CallReceived
        /\ last'.op = ACTION_APPROVE
        /\ Legal(last'.ticket, ACTION_APPROVE)) =>
        (last'.resp = ConfirmedAssetsChanged <=>
            /\ LiveConfirmed(last'.ticket) # {}
            /\ Cardinality(LiveConfirmed(last'.ticket))
                 # Len(ConfirmedAssetsOf(last'.ticket)))]_vars

C11_Witness ==
    /\ last.op = ACTION_APPROVE
    /\ last.resp = ConfirmedAssetsChanged
    /\ Len(ConfirmedAssetsOf(last.ticket)) = 2
    /\ Cardinality(Range(ConfirmedAssetsOf(last.ticket))) = 2
    /\ Cardinality(LiveConfirmed(last.ticket)) = 1

\* C12: an approve that passes the legality check and the asset checks fails
\* with NotHaveConfirmedSystemUser when no account is confirmed, fails with
\* ConfirmedSystemUserChanged when the confirmed account is not live, and
\* goes on to the atomic block otherwise
C12_AccountChecks ==
    [][(/\ CallReceived
        /\ last'.op = ACTION_APPROVE
        /\ Legal(last'.ticket, ACTION_APPROVE)
        /\ AssetsPass(last'.ticket)) =>
        last'.resp =
            IF NoAccount(last'.ticket) THEN NotHaveConfirmedSystemUser
            ELSE IF tickets[last'.ticket].meta.confirmed_system_user \notin liveAccounts
                 THEN ConfirmedSystemUserChanged
            ELSE Pending]_vars

C12_Witness ==
    /\ last.op = ACTION_APPROVE
    /\ last.resp = ConfirmedSystemUserChanged
    /\ AssetsPass(last.ticket)
    /\ ~NoAccount(last.ticket)
    /\ tickets[last.ticket].meta.confirmed_system_user \notin liveAccounts

DateKeys == {"date_start", "date_expired"}

\* C13 as stated: a bound is set on the grant, with the value of meta, if
\* and only if its key is present in the meta of the ticket
C13_DatesIffKeyPresent ==
    \A i \in 1..Len(grants) : \A k \in DateKeys :
        /\ k \in grants[i].fields <=> k \in tickets[grants[i].ticket].meta.keys
        /\ k \in grants[i].fields => grants[i][k] = tickets[grants[i].ticket].meta[k]

\* C13 as the code has it: a bound is set on the grant, with the value of
\* meta, if and only if its key is present in meta with a value that is
\* neither null nor empty; otherwise the bound is omitted
C13_DatesIffValuePresent ==
    \A i \in 1..Len(grants) : \A k \in DateKeys :
        /\ k \in grants[i].fields <=>
             /\ k \in tickets[grants[i].ticket].meta.keys
             /\ tickets[grants[i].ticket].meta[k] \notin {None, EmptyStr}
        /\ k \in grants[i].fields => grants[i][k] = tickets[grants[i].ticket].meta[k]
        /\ k \notin grants[i].fields => grants[i][k] = None

C13_Witness ==
    /\ Len(grants) = 1
    /\ grants[1].fields = {"date_start"}
    /\ grants[1].date_start = DateStart
    /\ "date_expired" \in tickets[grants[1].ticket].meta.keys

\* the confirmed payload of ticket t passes every check of approve
PayloadValid(t) ==
    /\ AssetsPass(t)
    /\ ~NoAccount(t)
    /\ tickets[t].meta.confirmed_system_user \in liveAccounts

\* the step is a call on ticket t for action op arriving
CallOn(op) == CallReceived /\ last'.op = op

\* C15: the already-set check refuses only the action the ticket records:
\* on an OPEN ticket that is REJECTED, approve with a valid payload is let
\* through and, unless the store fails, sets the action to APPROVED and
\* adds a grant; on an OPEN ticket that is APPROVED, reject is let through
\* and sets the action to REJECTED
C15_OtherActionAllowed ==
    [][/\ (/\ CallOn(ACTION_APPROVE)
           /\ tickets[last'.ticket].status = STATUS_OPEN
           /\ tickets[last'.ticket].action = ACTION_REJECT
           /\ PayloadValid(last'.ticket)) => last'.resp = Pending
       /\ \A p \in Procs :
            (WriteDone(p, "approve") /\ instance[p].action = ACTION_REJECT) =>
                \/ /\ last'.resp = Succeed
                   /\ tickets'[instance[p].id].action = ACTION_APPROVE
                   /\ Len(grants') = Len(grants) + 1
                   /\ grants'[Len(grants')].ticket = instance[p].id
                \/ /\ last'.resp = DatabaseError
                   /\ store' = store
       /\ (/\ CallOn(ACTION_REJECT)
           /\ tickets[last'.ticket].status = STATUS_OPEN
           /\ tickets[last'.ticket].action = ACTION_APPROVE) => last'.resp = Pending
       /\ \A p \in Procs :
            (WriteDone(p, "reject") /\ instance[p].action = ACTION_APPROVE) =>
                /\ last'.resp = Succeed
                /\ tickets'[instance[p].id].action = ACTION_REJECT]_vars

C15_Witness ==
    /\ last = [op |-> ACTION_APPROVE, ticket |-> TicketId, resp |-> Succeed]
    /\ Len(comments[TicketId]) = 2
    /\ comments[TicketId][1].action = ACTION_REJECT
    /\ comments[TicketId][2].action = ACTION_APPROVE
    /\ tickets[TicketId].action = ACTION_APPROVE
    /\ Len(grants) = 1

\* no call is being served
AllIdle == \A p \in Procs : pc[p] = "idle"

\* C16: once a ticket is CLOSED and no call is in progress, every call made
\* on it leaves its status CLOSED, leaves its action as it was and creates
\* no grant
C16_ClosedAbsorbing ==
    [][\A t \in Tickets :
        (tickets[t].status = STATUS_CLOSED /\ AllIdle) =>
            /\ tickets'[t] = tickets[t]
            /\ GrantsOf(grants', t) = GrantsOf(grants, t)
            /\ comments'[t] = comments[t]
            /\ AllIdle']_vars

C16_Witness ==
    /\ tickets[TicketId].status = STATUS_CLOSED
    /\ tickets[TicketId].action = ACTION_NONE
    /\ last = [op |-> ACTION_APPROVE, ticket |-> TicketId, resp |-> TicketClosed]
    /\ PayloadValid(TicketId)
    /\ grants = << >>
    /\ ncalls = 2

\* the first check of approve that fails for ticket t, in the order of the
\* code, or Pending when none does
FirstFailing(t) ==
    IF tickets[t].status = STATUS_CLOSED THEN TicketClosed
    ELSE IF tickets[t].action = ACTION_APPROVE THEN TicketActionYet
    ELSE IF LiveConfirmed(t) = {} THEN NotHaveConfirmedAssets
    ELSE IF Cardinality(LiveConfirmed(t)) # Len(ConfirmedAssetsOf(t))
         THEN ConfirmedAssetsChanged
    ELSE IF NoAccount(t) THEN NotHaveConfirmedSystemUser
    ELSE IF tickets[t].meta.confirmed_system_user \notin liveAccounts
         THEN ConfirmedSystemUserChanged
    ELSE Pending

\* C17: approve reports the first failing check in the order TicketClosed,
\* TicketActionYet, NotHaveConfirmedAssets, ConfirmedAssetsChanged,
\* NotHaveConfirmedSystemUser, ConfirmedSystemUserChanged
C17_FirstFailureReported ==
    [][CallOn(ACTION_APPROVE) => last'.resp = FirstFailing(last'.ticket)]_vars

C17_Witness ==
    /\ last.op = ACTION_APPROVE
    /\ last.resp = TicketActionYet
    /\ tickets[last.ticket].status = STATUS_OPEN
    /\ LiveConfirmed(last.ticket) = {}
    /\ liveAccounts = {}

\* C18: reject is let through exactly on an OPEN ticket whose action is not
\* REJECTED, whatever the confirmed payload and the catalog; a reject let
\* through succeeds and records REJECTED, and no other reject succeeds
C18_RejectOnlyLegality ==
    [][/\ CallOn(ACTION_REJECT) =>
            (last'.resp = Pending <=> Legal(last'.ticket, ACTION_REJECT))
       /\ \A p \in Procs : WriteDone(p, "reject") =>
            /\ last'.resp = Succeed
            /\ tickets'[instance[p].id].action = ACTION_REJECT
       /\ (last'.op = ACTION_REJECT /\ last'.resp = Succeed /\ last.resp # Succeed) =>
            /\ last = [op |-> ACTION_REJECT, ticket |-> last'.ticket, resp |-> Pending]
            /\ \E p \in Procs : WriteDone(p, "reject")]_vars

C18_Witness ==
    /\ last.op = ACTION_REJECT
    /\ last.resp = Succeed
    /\ tickets[last.ticket].action = ACTION_REJECT
    /\ ~PayloadValid(last.ticket)
    /\ NoAccount(last.ticket)
    /\ LiveConfirmed(last.ticket) = {}

\* the list has no repeated entry
DuplicateFree(seq) == Cardinality(Range(seq)) = Len(seq)

\* C19: when approve passes its validation the confirmed list has no
\* repeated id and every id of it is live; the grant of a successful approve
\* has exactly the ids of the list as its assets; a list that repeats a live
\* id is refused with ConfirmedAssetsChanged
C19_CountImpliesSet ==
    [][/\ (CallOn(ACTION_APPROVE) /\ last'.resp = Pending) =>
            /\ DuplicateFree(ConfirmedAssetsOf(last'.ticket))
            /\ Range(ConfirmedAssetsOf(last'.ticket)) \subseteq liveAssets
            /\ Range(ConfirmedAssetsOf(last'.ticket)) # {}
       /\ \A p \in Procs : (WriteDone(p, "approve") /\ last'.resp = Succeed) =>
            grants'[Len(grants')].assets = Range(ConfirmedAssetsOf(instance[p].id))
       /\ (/\ CallOn(ACTION_APPROVE)
           /\ Legal(last'.ticket, ACTION_APPROVE)
           /\ ~DuplicateFree(ConfirmedAssetsOf(last'.ticket))
           /\ LiveConfirmed(last'.ticket) # {}) =>
            last'.resp = ConfirmedAssetsChanged]_vars

C19_Witness ==
    /\ last.op = ACTION_APPROVE
    /\ last.resp = Succeed
    /\ Len(grants) = 1
    /\ Len(ConfirmedAssetsOf(last.ticket)) = 2
    /\ grants[1].assets = Range(ConfirmedAssetsOf(last.ticket))
    /\ Cardinality(grants[1].assets) = 2

\* a list repeating a live id was refused while the catalog was untouched
C19_DuplicateRefused ==
    /\ last.op = ACTION_APPROVE
    /\ last.resp = ConfirmedAssetsChanged
    /\ ~DuplicateFree(ConfirmedAssetsOf(last.ticket))
    /\ liveAssets = AssetIds

\* the step completes an approve with success
ApproveSucceeds == (\E p \in Procs : WriteDone(p, "approve")) /\ last'.resp = Succeed

\* C20: grants only accumulate: every step keeps the grants made so far as
\* they are, a successful approve adds exactly one, and no other step adds
\* or removes any
C20_GrantsAccumulate ==
    [][/\ Len(grants') = Len(grants) + (IF ApproveSucceeds THEN 1 ELSE 0)
       /\ SubSeq(grants', 1, Len(grants)) = grants]_vars

C20_Witness ==
    /\ last = [op |-> ACTION_REJECT, ticket |-> TicketId, resp |-> Succeed]
    /\ tickets[TicketId].action = ACTION_REJECT
    /\ Len(comments[TicketId]) = 2
    /\ comments[TicketId][1].action = ACTION_APPROVE
    /\ Cardinality(GrantsOf(grants, TicketId)) = 1
====
